---------------------------- MODULE Spec2Model ----------------------------
(***************************************************************************)
(* Alias expansion of the Postfix local delivery agent: deliver_alias()    *)
(* of local/alias.c, with the alias maps, the password database, the       *)
(* bounce/defer/sent logging and the token dispatcher as its environment.  *)
(*                                                                         *)
(* A call of deliver_alias() runs atomically up to the point where it      *)
(* either returns or hands the expansion to deliver_token_string(); the    *)
(* dispatcher then calls deliver_alias() once per destination, on a copy   *)
(* of the state, so the recursion is kept as an explicit call stack.       *)
(***************************************************************************)
EXTENDS Integers, Sequences, FiniteSets, TLC

VARIABLES var_alias_maps, var_ownreq_special, maps, dict_errno, stack, done

vars == <<var_alias_maps, var_ownreq_special, maps, dict_errno, stack, done>>

----------------------------------------------------------------------------
(* Program constants *)

NO == 0
YES == 1
LevelCeiling == 100

NULL == "(null)"
EXPAND_TYPE_ALIAS == "alias"
EXPAND_TYPE_NONE == "none"
BOUNCE_FLAG_KEEP == "BOUNCE_FLAG_KEEP"
MAIL_ADDR_POSTMASTER == "postmaster"
MAIL_ADDR_MAIL_DAEMON == "MAILER-DAEMON"

(* Bounds of the model *)

MaxSources == 2
LevelWindow == 1

----------------------------------------------------------------------------
(* Strings *)

\* tolower() over the names of the model; every other name is already in
\* lower case.
Lower(s) ==
    CASE s = "A" -> "a"
      [] s = "B" -> "b"
      [] s = "Postmaster" -> "postmaster"
      [] s = "MAILER-DAEMON" -> "mailer-daemon"
      [] OTHER -> s

strcasecmp(x, y) == IF Lower(x) = Lower(y) THEN 0 ELSE 1

concatenate(x, y) == x \o y

\* canon_addr_internal(): the address in canonical form, user@myorigin.
canon_addr_internal(addr) == addr \o "@localhost"

----------------------------------------------------------------------------
(* The alias databases.  A dictionary has a name, a table key -> expansion *)
(* (the destinations of the alias, in the order of its text), the keys for *)
(* which a lookup fails with dict_errno set, the file descriptor and the   *)
(* uid of the file's owner.                                                *)

Alias(k, v) == [key |-> k, text |-> v]

Table(entries) ==
    [k \in {e.key : e \in entries} |->
        (CHOOSE e \in entries : e.key = k).text]

AllKeys ==
    {"a", "b", "A", "c", "list", "postmaster", "mailer-daemon",
     "MAILER-DAEMON", "Postmaster", "owner-a", "owner-b", "owner-A",
     "owner-c", "owner-list", "owner-postmaster", "owner-mailer-daemon",
     "owner-MAILER-DAEMON", "owner-Postmaster"}

\* a -> b -> a, owned by root
DictCycle ==
    [name |-> "hash:/etc/aliases",
     tbl |-> Table({Alias("a", <<"b">>), Alias("b", <<"a">>)}),
     err |-> {}, fd |-> 3, st_uid |-> 0]

\* a mailing list of two aliases, one of them with an owner- alias, and an
\* alias that lists its own name; owned by an ordinary user
DictList ==
    [name |-> "hash:/home/lists/aliases",
     tbl |-> Table({Alias("list", <<"a", "b">>), Alias("a", <<"A", "c">>),
                    Alias("b", <<"c">>), Alias("owner-a", <<"c">>)}),
     err |-> {}, fd |-> 4, st_uid |-> 1001]

\* a table that is not a file (dict->fd < 0): st_uid is never set
DictNet ==
    [name |-> "nis:mail.aliases",
     tbl |-> Table({Alias("postmaster", <<"c">>), Alias("b", <<"a", "b">>),
                    Alias("list", <<"list", "b">>),
                    Alias("owner-b", <<"c">>)}),
     err |-> {}, fd |-> -1, st_uid |-> 1002]

\* a table whose owner has no password file entry
DictOrphan ==
    [name |-> "hash:/home/gone/aliases",
     tbl |-> Table({Alias("a", <<"c">>), Alias("owner-a", <<"c">>),
                    Alias("mailer-daemon", <<"c">>)}),
     err |-> {}, fd |-> 5, st_uid |-> 1002]

\* a table that is unavailable
DictDown ==
    [name |-> "ldap:aliases",
     tbl |-> Table({Alias("a", <<"c">>), Alias("postmaster", <<"c">>)}),
     err |-> AllKeys, fd |-> -1, st_uid |-> 0]

\* a table that fails for the owner- names only
DictFlaky ==
    [name |-> "hash:/etc/owners",
     tbl |-> Table({Alias("owner-list", <<"c">>)}),
     err |-> {"owner-a", "owner-b"}, fd |-> 6, st_uid |-> 0]

DictPool == {DictCycle, DictList, DictNet, DictOrphan, DictDown, DictFlaky}

RECURSIVE SeqsUpTo(_, _)
SeqsUpTo(S, n) ==
    IF n = 0 THEN {<<>>}
    ELSE LET shorter == SeqsUpTo(S, n - 1)
         IN  shorter \cup {Append(q, d) : q \in shorter, d \in S}

\* The password file: mypwuid() finds an entry for these uids only.
PasswdUids == {0, 1001}

mypwuid(uid) ==
    [found |-> uid \in PasswdUids, pw_uid |-> uid, pw_gid |-> uid]

\* var_default_uid, var_default_gid
DefaultRights == [uid |-> 65534, gid |-> 65534]

----------------------------------------------------------------------------
(* dict_lookup(): the expansion, or none with dict_errno telling whether   *)
(* the key is absent (0) or the table could not be searched.               *)

dict_lookup(dict, key) ==
    IF key \in dict.err
    THEN [found |-> FALSE, text |-> <<>>, errno |-> 1]
    ELSE IF key \in DOMAIN dict.tbl
    THEN [found |-> TRUE, text |-> dict.tbl[key], errno |-> 0]
    ELSE [found |-> FALSE, text |-> <<>>, errno |-> 0]

\* maps_find(): the first table of the chain that has the key; the search
\* stops at a table that fails, with dict_errno set.
RECURSIVE maps_find_from(_, _, _)
maps_find_from(chain, i, key) ==
    IF i > Len(chain)
    THEN [found |-> FALSE, text |-> <<>>, errno |-> 0, looked |-> <<>>]
    ELSE LET r == dict_lookup(chain[i], key)
             here == <<[src |-> i, key |-> key]>>
         IN  IF r.found \/ r.errno # 0
             THEN [found |-> r.found, text |-> r.text, errno |-> r.errno,
                   looked |-> here]
             ELSE LET rest == maps_find_from(chain, i + 1, key)
                  IN  [rest EXCEPT !.looked = here \o @]

maps_find(chain, key) == maps_find_from(chain, 1, key)

maps_create(names) == names

\* dict_owner - find out alias database owner
dict_owner(dict) == IF dict.fd < 0 THEN 0 ELSE dict.st_uid

----------------------------------------------------------------------------
(* Logging of the final disposition of a recipient.  Each call is recorded *)
(* with its arguments; defer_append() reports a soft error.                *)

Report(fn, flags, attr, text) ==
    [fn |-> fn, flags |-> flags, recipient |-> attr.recipient, text |-> text]

defer_append(flags, attr, text) == Report("defer_append", flags, attr, text)
bounce_append(flags, attr, text) == Report("bounce_append", flags, attr, text)
sent(attr, text) == Report("sent", "", attr, text)

DeferStatus == -1
ExtStatus == {0, -1}

----------------------------------------------------------------------------
(* Delivery attributes *)

RESET_USER_ATTR(usr_attr) == [usr_attr EXCEPT !.uid = DefaultRights.uid,
                                              !.gid = DefaultRights.gid]
SET_USER_ATTR(usr_attr, pwd) == [usr_attr EXCEPT !.uid = pwd.pw_uid,
                                                 !.gid = pwd.pw_gid]
RESET_OWNER_ATTR(msg_attr) == [msg_attr EXCEPT !.owner = NULL]
SET_OWNER_ATTR(msg_attr, who) == [msg_attr EXCEPT !.owner = who,
                                                  !.sender = who]

----------------------------------------------------------------------------
(* deliver_alias - expand alias file entry *)

\* (mutant) the names compared with strcmp()
self_reference_strcmp(state) ==
    /\ state.msg_attr.exp_from # NULL
    /\ state.msg_attr.exp_from = state.msg_attr.local

\* "when an alias includes its own name, deliver to the user instead"
self_reference(state) ==
    /\ state.msg_attr.exp_from # NULL
    /\ strcasecmp(state.msg_attr.exp_from, state.msg_attr.local) = 0

\* (mutant) no ceiling
loop_suspected_never(state) == FALSE

\* (mutant) the ceiling off by one
loop_suspected_late(state) == state.level > LevelCeiling + 1

\* "bail out when nesting reaches some unreasonable depth"
loop_suspected(state) == state.level > LevelCeiling

loop_report(state) ==
    bounce_append(BOUNCE_FLAG_KEEP, state.msg_attr,
        concatenate("possible alias database loop for ", state.msg_attr.local))

\* (mutant) a table that fails is skipped like one without the name
RECURSIVE alias_scan_skip(_, _, _)
alias_scan_skip(chain, i, local) ==
    IF i > Len(chain)
    THEN [kind |-> "none", idx |-> 0, text |-> <<>>, looked |-> <<>>]
    ELSE LET r == dict_lookup(chain[i], local)
             here == <<[src |-> i, key |-> local]>>
         IN  IF r.found
             THEN [kind |-> "found", idx |-> i, text |-> r.text,
                   looked |-> here]
             ELSE LET rest == alias_scan_skip(chain, i + 1, local)
                  IN  [rest EXCEPT !.looked = here \o @]

\* (mutant) the loop goes on after a match: the last table with the name wins
RECURSIVE alias_scan_last(_, _, _)
alias_scan_last(chain, i, local) ==
    IF i > Len(chain)
    THEN [kind |-> "none", idx |-> 0, text |-> <<>>, looked |-> <<>>]
    ELSE LET r == dict_lookup(chain[i], local)
             here == <<[src |-> i, key |-> local]>>
             rest == alias_scan_last(chain, i + 1, local)
         IN  IF r.errno # 0
             THEN [kind |-> "error", idx |-> i, text |-> <<>>,
                   looked |-> here]
             ELSE IF r.found /\ rest.kind # "found"
             THEN [kind |-> "found", idx |-> i, text |-> r.text,
                   looked |-> here \o rest.looked]
             ELSE [rest EXCEPT !.looked = here \o @]

\* The for loop over the alias maps, up to the first table that has the
\* name or that fails: what ended it, where, and the lookups made.
RECURSIVE alias_scan(_, _, _)
alias_scan(chain, i, local) ==
    IF i > Len(chain)
    THEN [kind |-> "none", idx |-> 0, text |-> <<>>, looked |-> <<>>]
    ELSE LET r == dict_lookup(chain[i], local)
             here == <<[src |-> i, key |-> local]>>
         IN  IF r.found
             THEN [kind |-> "found", idx |-> i, text |-> r.text,
                   looked |-> here]
             ELSE IF r.errno # 0
             THEN [kind |-> "error", idx |-> i, text |-> <<>>,
                   looked |-> here]
             ELSE LET rest == alias_scan(chain, i + 1, local)
                  IN  [rest EXCEPT !.looked = here \o @]

\* (mutant) the rights of the caller kept for a table owned by root
alias_rights_keep(dict, usr_attr) ==
    LET alias_uid == dict_owner(dict)
        alias_pwd == mypwuid(alias_uid)
    IN  IF alias_uid = 0
        THEN [ok |-> TRUE, usr_attr |-> usr_attr, pwlooks |-> <<>>]
        ELSE IF ~alias_pwd.found
        THEN [ok |-> FALSE, usr_attr |-> usr_attr, pwlooks |-> <<alias_uid>>]
        ELSE [ok |-> TRUE, usr_attr |-> SET_USER_ATTR(usr_attr, alias_pwd),
              pwlooks |-> <<alias_uid>>]

\* (mutant) default rights when the owner of the table is unknown
alias_rights_fallback(dict, usr_attr) ==
    LET alias_uid == dict_owner(dict)
        alias_pwd == mypwuid(alias_uid)
    IN  IF alias_uid = 0 \/ ~alias_pwd.found
        THEN [ok |-> TRUE, usr_attr |-> RESET_USER_ATTR(usr_attr),
              pwlooks |-> IF alias_uid = 0 THEN <<>> ELSE <<alias_uid>>]
        ELSE [ok |-> TRUE, usr_attr |-> SET_USER_ATTR(usr_attr, alias_pwd),
              pwlooks |-> <<alias_uid>>]

\* DELIVERY RIGHTS: default rights for a table owned by root, otherwise the
\* rights of the table's owner, who must be in the password file.
alias_rights(dict, usr_attr) ==
    LET alias_uid == dict_owner(dict)
        alias_pwd == mypwuid(alias_uid)
    IN  IF alias_uid = 0
        THEN [ok |-> TRUE, usr_attr |-> RESET_USER_ATTR(usr_attr),
              pwlooks |-> <<>>]
        ELSE IF ~alias_pwd.found
        THEN [ok |-> FALSE, usr_attr |-> usr_attr, pwlooks |-> <<alias_uid>>]
        ELSE [ok |-> TRUE, usr_attr |-> SET_USER_ATTR(usr_attr, alias_pwd),
              pwlooks |-> <<alias_uid>>]

OWNER_ASSIGN(ownreq, state) ==
    IF ownreq = 0 THEN NULL
    ELSE concatenate("owner-", state.msg_attr.local)

\* (mutant) the owner of the caller kept when there is no owner- alias
alias_owner_inherit(chain, ownreq, state, errno) ==
    LET owner == OWNER_ASSIGN(ownreq, state)
        probe == maps_find(chain, owner)
    IN  IF owner # NULL /\ probe.found
        THEN [msg_attr |-> SET_OWNER_ATTR(state.msg_attr,
                               canon_addr_internal(owner)),
              errno |-> probe.errno, looked |-> probe.looked]
        ELSE [msg_attr |-> state.msg_attr,
              errno |-> IF owner # NULL THEN probe.errno ELSE errno,
              looked |-> IF owner # NULL THEN probe.looked ELSE <<>>]

\* (mutant) a table that fails for the owner- alias taken as not having it
alias_owner_noerr(chain, ownreq, state, errno) ==
    LET owner == OWNER_ASSIGN(ownreq, state)
        probe == maps_find(chain, owner)
    IN  IF owner # NULL /\ probe.found
        THEN [msg_attr |-> SET_OWNER_ATTR(state.msg_attr,
                               canon_addr_internal(owner)),
              errno |-> 0, looked |-> probe.looked]
        ELSE [msg_attr |-> RESET_OWNER_ATTR(state.msg_attr),
              errno |-> 0,
              looked |-> IF owner # NULL THEN probe.looked ELSE <<>>]

\* (mutant) the owner- alias searched in the first table only
alias_owner_first(chain, ownreq, state, errno) ==
    LET owner == OWNER_ASSIGN(ownreq, state)
        probe == maps_find(SubSeq(chain, 1, 1), owner)
    IN  IF owner # NULL /\ probe.found
        THEN [msg_attr |-> SET_OWNER_ATTR(state.msg_attr,
                               canon_addr_internal(owner)),
              errno |-> probe.errno, looked |-> probe.looked]
        ELSE [msg_attr |-> RESET_OWNER_ATTR(state.msg_attr),
              errno |-> IF owner # NULL THEN probe.errno ELSE errno,
              looked |-> IF owner # NULL THEN probe.looked ELSE <<>>]

\* WHERE TO REPORT DELIVERY PROBLEMS: the owner- alias if there is one,
\* otherwise no owner.  errno is dict_errno as the primary lookup left it.
alias_owner(chain, ownreq, state, errno) ==
    LET owner == OWNER_ASSIGN(ownreq, state)
        probe == maps_find(chain, owner)
    IN  IF owner # NULL /\ probe.found
        THEN [msg_attr |-> SET_OWNER_ATTR(state.msg_attr,
                               canon_addr_internal(owner)),
              errno |-> probe.errno, looked |-> probe.looked]
        ELSE [msg_attr |-> RESET_OWNER_ATTR(state.msg_attr),
              errno |-> IF owner # NULL THEN probe.errno ELSE errno,
              looked |-> IF owner # NULL THEN probe.looked ELSE <<>>]

\* (mutant) the mailer-daemon forgotten
reserved_name_postmaster(state) ==
    strcasecmp(state.msg_attr.local, MAIL_ADDR_POSTMASTER) = 0

\* "If no alias was found for a required reserved name"
reserved_name(state) ==
    \/ strcasecmp(state.msg_attr.local, MAIL_ADDR_MAIL_DAEMON) = 0
    \/ strcasecmp(state.msg_attr.local, MAIL_ADDR_POSTMASTER) = 0

\* The part of the loop body that runs when table idx has the alias, up to
\* the delivery: rights, owner, delivered-to.
alias_found(base, chain, ownreq, scan) ==
    LET state3 == [base.state EXCEPT !.msg_attr.exp_type = EXPAND_TYPE_ALIAS]
        rights == alias_rights(chain[scan.idx], base.usr_attr)
        own == alias_owner(chain, ownreq, state3, 0)
        state4 == [state3 EXCEPT !.msg_attr =
                      [own.msg_attr EXCEPT !.delivered = own.msg_attr.recipient]]
    IN  IF ~rights.ok
        THEN [base EXCEPT !.state = state3, !.looked = scan.looked,
                 !.pwlooks = rights.pwlooks, !.errno = 0,
                 !.reports = <<defer_append(BOUNCE_FLAG_KEEP, state3.msg_attr,
                                 "cannot find alias database owner")>>,
                 !.warns = <<concatenate("cannot find alias database owner for ",
                                         chain[scan.idx].name)>>,
                 !.wrote = TRUE, !.status = DeferStatus, !.retval = YES]
        ELSE IF own.errno # 0
        THEN [base EXCEPT !.state = state4, !.usr_attr = rights.usr_attr,
                 !.looked = scan.looked \o own.looked,
                 !.pwlooks = rights.pwlooks, !.errno = own.errno,
                 !.reports = <<defer_append(BOUNCE_FLAG_KEEP, state4.msg_attr,
                                 "alias database unavailable")>>,
                 !.wrote = TRUE, !.status = DeferStatus, !.retval = YES]
        ELSE [base EXCEPT !.state = state4, !.usr_attr = rights.usr_attr,
                 !.looked = scan.looked \o own.looked,
                 !.pwlooks = rights.pwlooks, !.errno = own.errno,
                 !.kind = "dispatch", !.expansion = scan.text,
                 !.retval = YES]

\* deliver_alias() up to its return or to the call of the dispatcher.
\* ext is the result of the logging call made, if it is one whose result
\* the logging decides (bounce_append, sent).
deliver_alias(state0, usr_attr0, chain, ownreq, errno0, ext) ==
    LET state1 == [state0 EXCEPT !.level = @ + 1]
        base == [kind |-> "return", retval |-> NO, wrote |-> FALSE,
                 status |-> 0, state |-> state1, usr_attr |-> usr_attr0,
                 looked |-> <<>>, pwlooks |-> <<>>, reports |-> <<>>,
                 warns |-> <<>>, errno |-> errno0, expansion |-> <<>>]
        state2 == [state1 EXCEPT !.msg_attr.exp_from = state1.msg_attr.local]
        scan == alias_scan(chain, 1, state2.msg_attr.local)
        scanned == [base EXCEPT !.state = state2, !.looked = scan.looked,
                       !.errno = IF scan.looked = <<>> THEN errno0
                                 ELSE IF scan.kind = "error" THEN 1 ELSE 0]
    IN  IF self_reference(state1) THEN base
        ELSE IF loop_suspected(state1)
        THEN [base EXCEPT !.reports = <<loop_report(state1)>>,
                 !.warns = <<loop_report(state1).text>>,
                 !.wrote = TRUE, !.status = ext, !.retval = YES]
        ELSE IF scan.kind = "found"
        THEN alias_found([base EXCEPT !.state = state2], chain, ownreq, scan)
        ELSE IF scan.kind = "error"
        THEN [scanned EXCEPT
                 !.reports = <<defer_append(BOUNCE_FLAG_KEEP, state2.msg_attr,
                                 "alias database unavailable")>>,
                 !.wrote = TRUE, !.status = DeferStatus, !.retval = YES]
        ELSE IF reserved_name(state2)
        THEN [scanned EXCEPT
                 !.reports = <<sent(state2.msg_attr, "discarded")>>,
                 !.warns = <<concatenate("required alias not found: ",
                                         state2.msg_attr.local)>>,
                 !.wrote = TRUE, !.status = ext, !.retval = YES]
        ELSE scanned

----------------------------------------------------------------------------
(* The call stack *)

\* A call of deliver_alias(state, usr_attr, statusp): the arguments as the
\* caller passed them, the callee's own copies, and what the call did.
Frame(state, usr_attr) ==
    [arg_state |-> state, arg_usr |-> usr_attr,
     state |-> state, usr_attr |-> usr_attr,
     pc |-> "entry", expansion |-> <<>>, tokens |-> <<>>, dstatus |-> 0,
     looked |-> <<>>, pwlooks |-> <<>>, reports |-> <<>>, warns |-> <<>>,
     dispatches |-> <<>>, kids |-> <<>>]

Top == stack[Len(stack)]

\* status |= deliver_token(...)
StatusOr(x, y) == IF x = 0 THEN y ELSE x

\* deliver_token_string() takes the result of the call it made for the
\* destination at the head of its list: the status the call wrote, or, when
\* the call returned NO, the status of the delivery to the user (ext).
\* kids is the record of the calls made and what each returned.
TokenDone(parent, retval, status, ext) ==
    [parent EXCEPT !.tokens = Tail(@),
        !.dstatus = StatusOr(@, IF retval = YES THEN status ELSE ext),
        !.kids = Append(@, [local |-> Head(parent.tokens),
                            retval |-> retval])]

\* (mutant) owner, sender and rights kept in storage the calls share
CallerFrame_shared(parent, callee) ==
    [parent EXCEPT !.state.msg_attr.owner = callee.state.msg_attr.owner,
                   !.state.msg_attr.sender = callee.state.msg_attr.sender,
                   !.usr_attr = callee.usr_attr]

\* (mutant) exp_from kept in storage the calls share
CallerFrame_exp_from(parent, callee) ==
    [parent EXCEPT !.state.msg_attr.exp_from = callee.state.msg_attr.exp_from]

\* deliver_alias() takes state and usr_attr by value: what the callee did
\* to its copies is lost on return.
CallerFrame(parent, callee) == parent

Return(stk, callee, retval, status, ext) ==
    LET rest == SubSeq(stk, 1, Len(stk) - 1)
    IN  IF rest = <<>> THEN rest
        ELSE [rest EXCEPT ![Len(rest)] =
                 TokenDone(CallerFrame(@, callee), retval, status, ext)]

Completed(frame, retval, wrote, status) ==
    <<[retval |-> retval, wrote |-> wrote, status |-> status,
       call |-> frame, depth |-> Len(stack)]>>

\* The state deliver_token_string() passes on for one destination.
TokenState(state, token) ==
    [state EXCEPT !.msg_attr.local = token,
                  !.msg_attr.recipient = canon_addr_internal(token)]

----------------------------------------------------------------------------
(* Actions *)

\* deliver_alias() from its entry to its return, or to the point where it
\* calls deliver_token_string().
DeliverAlias ==
    /\ stack # <<>>
    /\ Top.pc = "entry"
    /\ maps' = IF maps.created THEN maps
               ELSE [created |-> TRUE, argv |-> maps_create(var_alias_maps)]
    /\ \E ext \in ExtStatus :
         \E out \in {deliver_alias(Top.state, Top.usr_attr, maps'.argv,
                                    var_ownreq_special, dict_errno, ext)} :
         LET frame == [Top EXCEPT !.state = out.state,
                          !.usr_attr = out.usr_attr, !.looked = out.looked,
                          !.pwlooks = out.pwlooks, !.reports = out.reports,
                          !.warns = out.warns]
         IN  /\ dict_errno' = out.errno
             /\ IF out.kind = "dispatch"
                THEN /\ stack' = [stack EXCEPT ![Len(stack)] =
                            [frame EXCEPT !.pc = "dispatch",
                                !.expansion = out.expansion,
                                !.tokens = out.expansion,
                                !.dispatches = <<[state |-> out.state,
                                    usr_attr |-> out.usr_attr,
                                    expansion |-> out.expansion]>>]]
                     /\ done' = done
                ELSE /\ stack' = Return(stack, frame, out.retval, out.status,
                                        ext)
                     /\ done' = Completed(frame, out.retval, out.wrote,
                                          out.status)
    /\ UNCHANGED <<var_alias_maps, var_ownreq_special>>

\* deliver_token_string() delivers to the next destination of the expansion:
\* a nested deliver_alias() on a copy of the state.
DeliverToken ==
    /\ stack # <<>>
    /\ Top.pc = "dispatch"
    /\ Top.tokens # <<>>
    /\ stack' = Append(stack,
                    Frame(TokenState(Top.state, Head(Top.tokens)),
                          Top.usr_attr))
    /\ UNCHANGED <<var_alias_maps, var_ownreq_special, maps, dict_errno, done>>

\* (mutant) YES returned with *statusp not assigned
DispatchReturn_unwritten ==
    /\ stack # <<>>
    /\ Top.pc = "dispatch"
    /\ Top.tokens = <<>>
    /\ \E ext \in ExtStatus :
         stack' = Return(stack, Top, YES, ext, ext)
    /\ done' = Completed(Top, YES, FALSE, 0)
    /\ UNCHANGED <<var_alias_maps, var_ownreq_special, maps, dict_errno>>

\* (mutant) the result of deliver_token_string() dropped: *statusp = 0
DispatchReturn_zero ==
    /\ stack # <<>>
    /\ Top.pc = "dispatch"
    /\ Top.tokens = <<>>
    /\ \E ext \in ExtStatus :
         stack' = Return(stack, Top, YES, 0, ext)
    /\ done' = Completed(Top, YES, TRUE, 0)
    /\ UNCHANGED <<var_alias_maps, var_ownreq_special, maps, dict_errno>>

\* deliver_token_string() returns; its result becomes *statusp and
\* deliver_alias() returns YES.
DispatchReturn ==
    /\ stack # <<>>
    /\ Top.pc = "dispatch"
    /\ Top.tokens = <<>>
    /\ \E ext \in ExtStatus :
         stack' = Return(stack, Top, YES, Top.dstatus, ext)
    /\ done' = Completed(Top, YES, TRUE, Top.dstatus)
    /\ UNCHANGED <<var_alias_maps, var_ownreq_special, maps, dict_errno>>

----------------------------------------------------------------------------
(* Initial states: a configuration and one recipient handed to             *)
(* deliver_alias() by the local delivery agent.                            *)

Recipients == {"a", "b", "c", "list", "postmaster", "mailer-daemon"}
ExpandedFrom == {NULL, "A", "Postmaster"}
NestedLevels == (LevelCeiling - LevelWindow) .. LevelCeiling

\* The attributes of a message that comes from the queue.
QueueAttrs ==
    [owner |-> NULL, sender |-> "sender@remote",
     exp_type |-> EXPAND_TYPE_NONE, usr_attr |-> [uid |-> 0, gid |-> 0]]

\* The attributes of a message that is being delivered to an owned list.
ListAttrs ==
    [owner |-> "owner-list@localhost", sender |-> "owner-list@localhost",
     exp_type |-> EXPAND_TYPE_ALIAS,
     usr_attr |-> [uid |-> 1001, gid |-> 1001]]

Request(local, exp_from, level, attrs) ==
    Frame([level |-> level,
           msg_attr |-> [local |-> local,
                         recipient |-> canon_addr_internal(local),
                         exp_from |-> exp_from, exp_type |-> attrs.exp_type,
                         owner |-> attrs.owner, sender |-> attrs.sender,
                         delivered |-> NULL]],
          attrs.usr_attr)

\* A recipient from the queue enters at level 0, expanded from nothing; a
\* recipient that some expansion produced enters deeper, with the
\* attributes of that expansion.
Requests ==
    {Request(local, NULL, 0, QueueAttrs) : local \in Recipients}
    \cup {Request(local, exp_from, level, attrs) :
            local \in Recipients, exp_from \in ExpandedFrom,
            level \in NestedLevels, attrs \in {QueueAttrs, ListAttrs}}

Init ==
    /\ var_alias_maps \in SeqsUpTo(DictPool, MaxSources)
    /\ var_ownreq_special \in {0, 1}
    /\ maps = [created |-> FALSE, argv |-> <<>>]
    /\ dict_errno = 0
    /\ stack \in {<<r>> : r \in Requests}
    /\ done = <<>>

Next == DeliverAlias \/ DeliverToken \/ DispatchReturn

Spec == Init /\ [][Next]_vars

\* The resolution of a recipient that comes from the queue.  The delivery
\* agent is one sequential process: a call that can take its next step
\* takes it.
InitQueue == Init /\ stack[1].arg_state.level = 0

SpecFair == InitQueue /\ [][Next]_vars /\ WF_vars(Next)

----------------------------------------------------------------------------
(* Properties.  A call is observed when it has returned (done) and while   *)
(* it waits in deliver_token_string() (a frame at "dispatch").  Only the    *)
(* top frame ever changes (a return changes the frame it returns to, which *)
(* is then the top), so what holds of the top frame in every state holds   *)
(* of every frame.                                                         *)

Chain == maps.argv
Last == done[1]
Returned == done # <<>>
Dispatching == {k \in DOMAIN stack : stack[k].pc = "dispatch"}
Waiting == {k \in {Len(stack)} : k > 0 /\ stack[k].pc = "dispatch"}
LocalOf(call) == call.arg_state.msg_attr.local
Answer(look) == dict_lookup(Chain[look.src], look.key)

\* The lookups of the call for its recipient that ended in an error.
ErrorLooks(call) ==
    {i \in DOMAIN call.looked :
        /\ call.looked[i].key = LocalOf(call)
        /\ Answer(call.looked[i]).errno # 0}

UnavailableReport(call) ==
    defer_append(BOUNCE_FLAG_KEEP, call.state.msg_attr,
                 "alias database unavailable")

\* C1: a call whose scan of the alias maps meets a table that fails for the
\* recipient, before any table had it, returns YES with the status of
\* defer_append(KEEP, "alias database unavailable"); that failing lookup is
\* its last lookup, the tables before it were looked up in order, and the
\* dispatcher is not called.
C1_LookupErrorDefers ==
    /\ \A k \in Waiting : ErrorLooks(stack[k]) = {}
    /\ Returned /\ ErrorLooks(Last.call) # {} =>
         LET call == Last.call
         IN  /\ Last.retval = YES
             /\ Last.wrote /\ Last.status = DeferStatus
             /\ call.reports = <<UnavailableReport(call)>>
             /\ call.dispatches = <<>>
             /\ ErrorLooks(call) = {Len(call.looked)}
             /\ \A j \in DOMAIN call.looked :
                  call.looked[j] = [src |-> j, key |-> LocalOf(call)]

\* The first table fails for the recipient and a later table has it.
C1_Witness ==
    /\ Returned /\ ErrorLooks(Last.call) = {1}
    /\ Len(Chain) = 2
    /\ dict_lookup(Chain[2], LocalOf(Last.call)).found
    /\ Last.retval = YES /\ Last.status = DeferStatus

\* C2: a call that finds the nesting deeper than the ceiling (and is no
\* self-reference) returns YES, its failure recorded as deferred, with the
\* KEEP flag.
C2_LoopIsDeferred ==
    Returned /\ loop_suspected(Last.call.state)
             /\ ~self_reference(Last.call.state) =>
        /\ Last.retval = YES
        /\ Len(Last.call.reports) = 1
        /\ Last.call.reports[1].fn = "defer_append"
        /\ Last.call.reports[1].flags = BOUNCE_FLAG_KEEP

\* The call was entered with exp_from set to its recipient's name, in any
\* case of letters.
SelfRefArg(call) ==
    /\ call.arg_state.msg_attr.exp_from # NULL
    /\ Lower(call.arg_state.msg_attr.exp_from) = Lower(LocalOf(call))

LoopReport(call) ==
    bounce_append(BOUNCE_FLAG_KEEP, call.state.msg_attr,
        "possible alias database loop for " \o LocalOf(call))

NothingDone(call) ==
    /\ call.looked = <<>> /\ call.pwlooks = <<>>
    /\ call.reports = <<>> /\ call.warns = <<>>
    /\ call.dispatches = <<>>

\* A nested call receives the level of its parent's copy of the state.
LevelsChained ==
    \A k \in DOMAIN stack : k > 1 =>
        stack[k].arg_state.level = stack[k - 1].state.level

\* C3 as stated: every call whose level, after the increment on entry, is
\* above the ceiling looks nothing up, dispatches nothing and returns YES
\* with the loop failure; at most LevelCeiling nested calls reach the scan.
C3_AboveCeilingAlwaysLoopFailure ==
    /\ LevelsChained
    /\ \A k \in Dispatching : stack[k].state.level <= LevelCeiling
    /\ Cardinality(Dispatching) <= LevelCeiling
    /\ Returned /\ Last.call.state.level > LevelCeiling =>
         /\ Last.call.looked = <<>> /\ Last.call.dispatches = <<>>
         /\ Last.retval = YES
         /\ Last.call.reports = <<LoopReport(Last.call)>>

\* C3 (amended): every call whose level, after the increment on entry, is
\* above the ceiling looks nothing up and dispatches nothing; it returns
\* YES with the loop failure, unless it was entered with exp_from equal to
\* its recipient, and then it returns NO with nothing reported.  At most
\* LevelCeiling nested calls on one branch reach the scan of the maps.
C3_AboveCeilingNoScan ==
    /\ LevelsChained
    /\ \A k \in Dispatching : stack[k].state.level <= LevelCeiling
    /\ Cardinality(Dispatching) <= LevelCeiling
    /\ Returned /\ Last.call.looked # <<>> =>
         Last.call.state.level <= LevelCeiling
    /\ Returned /\ Last.call.state.level > LevelCeiling =>
         /\ Last.call.looked = <<>> /\ Last.call.dispatches = <<>>
         /\ IF SelfRefArg(Last.call)
            THEN Last.retval = NO /\ ~Last.wrote /\ NothingDone(Last.call)
            ELSE /\ Last.retval = YES /\ Last.wrote
                 /\ Last.call.reports = <<LoopReport(Last.call)>>

\* Resolving a recipient from the queue, the call one above the ceiling has
\* returned the loop failure, under LevelCeiling calls that wait in the
\* dispatcher.
C3_Witness ==
    /\ Returned /\ stack # <<>>
    /\ stack[1].arg_state.level = 0
    /\ Cardinality(Dispatching) = LevelCeiling
    /\ Last.call.state.level = LevelCeiling + 1
    /\ Last.retval = YES
    /\ Last.call.reports = <<LoopReport(Last.call)>>

\* C4: a call entered with exp_from equal to its recipient, in any case of
\* letters, returns NO at once: nothing is looked up, reported or
\* dispatched and *statusp is not written, at any level and whatever the
\* tables hold.
C4_SelfReferenceFallsThrough ==
    /\ \A k \in Waiting : ~SelfRefArg(stack[k])
    /\ Returned /\ SelfRefArg(Last.call) =>
         Last.retval = NO /\ ~Last.wrote /\ NothingDone(Last.call)

\* A reserved name, spelled differently from exp_from, above the ceiling,
\* with a first table that is unavailable.
C4_Witness ==
    /\ Returned /\ SelfRefArg(Last.call)
    /\ Last.call.arg_state.msg_attr.exp_from # LocalOf(Last.call)
    /\ Lower(LocalOf(Last.call)) = "postmaster"
    /\ Last.call.state.level > LevelCeiling
    /\ Chain # <<>> /\ dict_lookup(Chain[1], LocalOf(Last.call)).errno # 0
    /\ Last.retval = NO

NoSourceContains(local) ==
    \A i \in DOMAIN Chain : local \notin DOMAIN Chain[i].tbl

AllNotFound(local) ==
    \A i \in DOMAIN Chain :
        ~dict_lookup(Chain[i], local).found
        /\ dict_lookup(Chain[i], local).errno = 0

Reserved(local) == Lower(local) \in {"postmaster", "mailer-daemon"}

Discarded(ret) ==
    /\ ret.retval = YES /\ ret.wrote
    /\ ret.call.reports = <<sent(ret.call.state.msg_attr, "discarded")>>
    /\ ret.call.warns = <<"required alias not found: " \o LocalOf(ret.call)>>
    /\ ret.call.dispatches = <<>>

NotApplicable(ret) ==
    /\ ret.retval = NO /\ ~ret.wrote
    /\ ret.call.reports = <<>> /\ ret.call.dispatches = <<>>

\* C5 as stated, read for the calls that pass the self-reference check and
\* the depth check: when no table of the chain has the recipient, the call
\* returns NO, or, for a reserved name, YES with the message discarded and
\* the warning "required alias not found".
C5_NoAliasAnywhere ==
    Returned /\ NoSourceContains(LocalOf(Last.call))
             /\ ~SelfRefArg(Last.call)
             /\ Last.call.state.level <= LevelCeiling =>
        IF Reserved(LocalOf(Last.call))
        THEN Discarded(Last) ELSE NotApplicable(Last)

\* C5 (amended): when every table of the chain answers not-found for the
\* recipient, without a lookup error, a call that passes the self-reference
\* check and the depth check returns NO, or, for a reserved name, YES with
\* the message discarded and the warning "required alias not found".
C5_NotFoundAnywhere ==
    Returned /\ AllNotFound(LocalOf(Last.call))
             /\ ~SelfRefArg(Last.call)
             /\ Last.call.state.level <= LevelCeiling =>
        /\ IF Reserved(LocalOf(Last.call))
           THEN Discarded(Last) ELSE NotApplicable(Last)
        /\ Len(Last.call.looked) = Len(Chain)

\* No alias maps at all, and the postmaster as the recipient.
C5_Witness ==
    /\ Returned /\ Chain = <<>>
    /\ LocalOf(Last.call) = "postmaster"
    /\ Discarded(Last)

\* The lookups of the call for its recipient, and the table that had it.
LocalLooks(call) ==
    SelectSeq(call.looked, LAMBDA look : look.key = LocalOf(call))

Matched(call) ==
    {j \in DOMAIN LocalLooks(call) : Answer(LocalLooks(call)[j]).found}

MatchedSrc(call) == LocalLooks(call)[Len(LocalLooks(call))].src

FirstMatchWins(call) ==
    /\ \A j \in DOMAIN LocalLooks(call) : LocalLooks(call)[j].src = j
    /\ \A j \in Matched(call) :
         /\ j = Len(LocalLooks(call))
         /\ \A i \in 1 .. (j - 1) :
              /\ LocalOf(call) \notin DOMAIN Chain[i].tbl
              /\ dict_lookup(Chain[i], LocalOf(call)).errno = 0
    /\ call.dispatches # <<>> =>
         /\ Matched(call) # {}
         /\ Len(call.dispatches) = 1
         /\ call.dispatches[1].expansion =
              Chain[MatchedSrc(call)].tbl[LocalOf(call)]

\* C6: the tables are looked up for the recipient in the configured order;
\* the expansion handed to the dispatcher is that of the first table that
\* has the recipient, the tables before it having answered not-found; once
\* a table matched no later table is looked up for the recipient, and the
\* call returns YES whatever the status of the dispatcher.
C6_FirstMatchWins ==
    /\ \A k \in Waiting :
         FirstMatchWins(stack[k]) /\ Matched(stack[k]) # {}
    /\ Returned =>
         /\ FirstMatchWins(Last.call)
         /\ Matched(Last.call) # {} => Last.retval = YES /\ Last.wrote
         /\ Last.call.dispatches # <<>> =>
              Last.status = Last.call.dstatus /\ Last.call.tokens = <<>>

\* Both tables have the recipient, with different expansions; the first
\* was dispatched and the dispatcher returned a failing status.
C6_Witness ==
    /\ Returned /\ Len(Chain) = 2
    /\ LocalOf(Last.call) \in DOMAIN Chain[1].tbl
    /\ LocalOf(Last.call) \in DOMAIN Chain[2].tbl
    /\ Chain[1].tbl[LocalOf(Last.call)] # Chain[2].tbl[LocalOf(Last.call)]
    /\ Last.call.dispatches # <<>>
    /\ Last.call.dispatches[1].expansion = Chain[1].tbl[LocalOf(Last.call)]
    /\ Len(Last.call.looked) >= 1 /\ Len(LocalLooks(Last.call)) = 1
    /\ Last.retval = YES /\ Last.status # 0

OwnerKey(call) == "owner-" \o LocalOf(call)

OwnerResolves(call) ==
    /\ var_ownreq_special # 0
    /\ \E i \in DOMAIN Chain : dict_lookup(Chain[i], OwnerKey(call)).found

\* C7: a call works on its own copies of the state and of the user
\* attributes.  The caller's copies are after each nested call what they
\* were when the expansion was dispatched; each nested call receives them,
\* with the destination as the recipient, whatever its siblings did; and a
\* nested call whose recipient has no owner- alias dispatches with no owner.
C7_SiblingsIsolated ==
    /\ \A k \in Waiting :
         /\ stack[k].state = stack[k].dispatches[1].state
         /\ stack[k].usr_attr = stack[k].dispatches[1].usr_attr
         /\ k > 1 /\ ~OwnerResolves(stack[k]) =>
              stack[k].dispatches[1].state.msg_attr.owner = NULL
    /\ \A k \in {Len(stack)} : k > 1 =>
         /\ stack[k - 1].pc = "dispatch"
         /\ stack[k].arg_state.level = stack[k - 1].dispatches[1].state.level
         /\ stack[k].arg_state.msg_attr =
              [stack[k - 1].dispatches[1].state.msg_attr EXCEPT
                  !.local = stack[k].arg_state.msg_attr.local,
                  !.recipient = stack[k].arg_state.msg_attr.recipient]
         /\ stack[k].arg_usr = stack[k - 1].dispatches[1].usr_attr
    /\ Returned /\ Last.call.dispatches # <<>> =>
         /\ Last.call.state = Last.call.dispatches[1].state
         /\ Last.call.usr_attr = Last.call.dispatches[1].usr_attr

\* A list of two aliases: the first was dispatched with its owner- alias
\* as the owner and has returned; the second, which has none, is dispatched
\* with no owner, and the list's own state is as it was.
C7_Witness ==
    /\ Returned /\ Len(stack) = 2
    /\ stack[1].expansion = <<"a", "b">> /\ stack[1].tokens = <<"b">>
    /\ LocalOf(Last.call) = "a" /\ Last.depth = 2
    /\ Last.call.dispatches # <<>>
    /\ Last.call.dispatches[1].state.msg_attr.owner = "owner-a@localhost"
    /\ Last.call.dispatches[1].usr_attr # stack[1].usr_attr
    /\ stack[2].pc = "dispatch" /\ LocalOf(stack[2]) = "b"
    /\ stack[2].dispatches[1].state.msg_attr.owner = NULL
    /\ stack[1].state = stack[1].dispatches[1].state
    /\ stack[1].state.msg_attr.owner = NULL

RootOwned(call) ==
    /\ Matched(call) # {}
    /\ Chain[MatchedSrc(call)].fd >= 0
    /\ Chain[MatchedSrc(call)].st_uid = 0

RightsOK(call) ==
    RootOwned(call) =>
        /\ call.pwlooks = <<>>
        /\ call.dispatches # <<>> =>
             /\ call.dispatches[1].usr_attr.uid = DefaultRights.uid
             /\ call.dispatches[1].usr_attr.gid = DefaultRights.gid

\* C8: when the table that has the recipient is owned by root, the rights
\* passed to the dispatcher are the default rights, whichever table of the
\* chain it is and whatever rights the caller passed; the password file is
\* not searched.
C8_RootOwnedDefaultRights ==
    /\ \A k \in Waiting : RightsOK(stack[k])
    /\ Returned => RightsOK(Last.call)

\* The second table, owned by root, has the recipient; the caller passed
\* the rights of an ordinary user.
C8_Witness ==
    /\ stack # <<>> /\ Top.pc = "dispatch"
    /\ RootOwned(Top) /\ MatchedSrc(Top) = 2
    /\ Top.arg_usr.uid = 1001
    /\ Top.dispatches[1].usr_attr.uid = DefaultRights.uid

Orphaned(call) ==
    /\ Matched(call) # {}
    /\ Chain[MatchedSrc(call)].fd >= 0
    /\ Chain[MatchedSrc(call)].st_uid # 0
    /\ Chain[MatchedSrc(call)].st_uid \notin PasswdUids

\* C9: when the owner of the table that has the recipient is not root and
\* has no password file entry, the call reports
\* defer_append(KEEP, "cannot find alias database owner") and returns YES:
\* nothing is dispatched, no owner- name and no later table is looked up,
\* and the rights are left as they were.
C9_UnknownOwnerDefers ==
    /\ \A k \in Waiting : ~Orphaned(stack[k])
    /\ Returned /\ Orphaned(Last.call) =>
         /\ Last.retval = YES /\ Last.wrote /\ Last.status = DeferStatus
         /\ Last.call.reports =
              <<defer_append(BOUNCE_FLAG_KEEP, Last.call.state.msg_attr,
                             "cannot find alias database owner")>>
         /\ Last.call.dispatches = <<>>
         /\ Last.call.looked = LocalLooks(Last.call)
         /\ Matched(Last.call) = {Len(Last.call.looked)}
         /\ Last.call.usr_attr = Last.call.arg_usr

\* The first table has the recipient and its owner- alias, the second has
\* the recipient too, and owner- aliases are enabled.
C9_Witness ==
    /\ Returned /\ Orphaned(Last.call)
    /\ Len(Chain) = 2 /\ MatchedSrc(Last.call) = 1
    /\ LocalOf(Last.call) \in DOMAIN Chain[2].tbl
    /\ OwnerResolves(Last.call)
    /\ Last.retval = YES /\ Last.call.dispatches = <<>>

OwnerLooks(call) ==
    SelectSeq(call.looked, LAMBDA look : look.key = OwnerKey(call))

\* The owner- name looked up from the first table on, in order, up to the
\* table that has it or fails, or to the end of the chain; and the owner
\* passed to the dispatcher when a table has it.
OwnerProbed(call) ==
    LET n == Len(OwnerLooks(call))
    IN  /\ n >= 1
        /\ \A j \in 1 .. n : OwnerLooks(call)[j].src = j
        /\ \A j \in 1 .. (n - 1) :
             /\ ~Answer(OwnerLooks(call)[j]).found
             /\ Answer(OwnerLooks(call)[j]).errno = 0
        /\ \/ n = Len(Chain)
           \/ Answer(OwnerLooks(call)[n]).found
           \/ Answer(OwnerLooks(call)[n]).errno # 0
        /\ call.dispatches # <<>> /\ OwnerResolves(call) =>
             call.dispatches[1].state.msg_attr.owner =
                 canon_addr_internal(OwnerKey(call))

\* C10 as stated: with owner- aliases enabled, every call that found its
\* recipient in a table has looked up owner-<recipient> through the chain,
\* in order from the first table; when a table has it, the owner passed to
\* the dispatcher is the canonical owner-<recipient>.
C10_OwnerProbedWhenMatched ==
    /\ \A k \in Waiting :
         var_ownreq_special # 0 => OwnerProbed(stack[k])
    /\ Returned /\ var_ownreq_special # 0 /\ Matched(Last.call) # {} =>
         OwnerProbed(Last.call)

\* C10 (amended): the same, for the calls that found their recipient in a
\* table whose owner is root or has a password file entry (or that is no
\* file).
C10_OwnerProbedWhenRightsResolved ==
    /\ \A k \in Waiting :
         var_ownreq_special # 0 => OwnerProbed(stack[k])
    /\ Returned /\ var_ownreq_special # 0 /\ Matched(Last.call) # {}
                /\ ~Orphaned(Last.call) =>
         OwnerProbed(Last.call)

\* The first table has the recipient, only the second has its owner-
\* alias, and the expansion is dispatched with that owner.
C10_Witness ==
    /\ stack # <<>> /\ Top.pc = "dispatch"
    /\ var_ownreq_special # 0
    /\ MatchedSrc(Top) = 1
    /\ Len(OwnerLooks(Top)) = 2
    /\ Answer(OwnerLooks(Top)[2]).found
    /\ Top.arg_state.msg_attr.owner # Top.dispatches[1].state.msg_attr.owner
    /\ Top.dispatches[1].state.msg_attr.owner =
           canon_addr_internal(OwnerKey(Top))

NoOwnerWhenDue(call) ==
    /\ var_ownreq_special = 0 => OwnerLooks(call) = <<>>
    /\ call.dispatches # <<>> /\ ~OwnerResolves(call) =>
         call.dispatches[1].state.msg_attr.owner = NULL

\* C11: when the recipient matched and owner- aliases are disabled, or no
\* table has owner-<recipient>, the state passed to the dispatcher has no
\* owner, whatever owner the caller's state had; with owner- aliases
\* disabled no owner- name is looked up.
C11_NoOwnerInherited ==
    /\ \A k \in Waiting : NoOwnerWhenDue(stack[k])
    /\ Returned => NoOwnerWhenDue(Last.call)

\* Owner- aliases are disabled, a table has owner-<recipient>, the caller
\* passed an owner, and the expansion is dispatched with no owner.
C11_Witness ==
    /\ stack # <<>> /\ Top.pc = "dispatch"
    /\ var_ownreq_special = 0
    /\ \E i \in DOMAIN Chain : dict_lookup(Chain[i], OwnerKey(Top)).found
    /\ Top.arg_state.msg_attr.owner # NULL
    /\ Top.dispatches[1].state.msg_attr.owner = NULL
    /\ Top.looked = LocalLooks(Top)

\* How far a call has come, smaller is further: not yet made, entered,
\* waiting for so many destinations of its expansion.
Rank(stk, k) ==
    IF k > Len(stk) THEN <<2, 0>>
    ELSE IF stk[k].pc = "entry" THEN <<1, 0>>
    ELSE <<0, Len(stk[k].tokens)>>

RankLess(r, s) == r[1] < s[1] \/ (r[1] = s[1] /\ r[2] < s[2])

\* The ranks of the calls from the outermost inwards, compared as words;
\* the outermost call having returned is the least.  The words have at
\* most LevelCeiling + 1 letters, so nothing descends for ever.
Descends(old, new) ==
    IF new = <<>> THEN old # <<>>
    ELSE LET k == IF Len(old) < Len(new) THEN Len(old) ELSE Len(new)
         IN  /\ k >= 1
             /\ SubSeq(new, 1, k - 1) = SubSeq(old, 1, k - 1)
             /\ \/ RankLess(Rank(new, k), Rank(old, k))
                \/ /\ Rank(new, k) = Rank(old, k)
                   /\ RankLess(Rank(new, k + 1), Rank(old, k + 1))

\* A call that has passed its entry is one level below its caller.
LevelUp(stk, k) ==
    /\ stk[k].state.level = stk[k].arg_state.level + 1
    /\ k > 1 => stk[k].arg_state.level = stk[k - 1].state.level

\* How a call that dispatched nothing ends.
BranchEnd(ret) ==
    \/ /\ ret.retval = NO /\ SelfRefArg(ret.call) /\ NothingDone(ret.call)
    \/ /\ ret.retval = NO /\ ~SelfRefArg(ret.call)
       /\ AllNotFound(LocalOf(ret.call))
       /\ ret.call.reports = <<>>
    \/ /\ ret.retval = YES /\ Len(ret.call.reports) = 1
       /\ ret.call.state.level <= LevelCeiling
    \/ /\ ret.retval = YES /\ ret.call.reports = <<LoopReport(ret.call)>>
       /\ ret.call.state.level = LevelCeiling + 1 /\ ret.call.looked = <<>>

ResolutionStep ==
    /\ Descends(stack, stack')
    /\ Len(stack') <= LevelCeiling + 1
    /\ \A k \in {Len(stack')} : k > 0 =>
         /\ stack'[k].arg_state.level <= LevelCeiling
         /\ k > 1 => stack'[k].arg_state.level = stack'[k - 1].state.level
         /\ stack'[k].pc = "dispatch" => LevelUp(stack', k)
    /\ done' # done =>
         /\ done'[1].call.state.level = done'[1].call.arg_state.level + 1
         /\ done'[1].call.dispatches = <<>> => BranchEnd(done'[1])

\* C12: the resolution of a recipient terminates: every step of it
\* descends in a well-founded order, each nested call is one level deeper
\* than its caller and none is made above the ceiling, every call that
\* dispatches nothing ends in a self-reference fall-through, a no-match
\* result, a reported failure or the depth-ceiling failure, and the
\* outermost call returns.
C12_ResolutionTerminates ==
    [][ResolutionStep]_vars /\ <>(stack = <<>>)

\* A mutual cycle a -> b -> a has been followed from level 0 to the ceiling
\* and the whole resolution has returned.
C12_Witness ==
    /\ stack = <<>> /\ Returned
    /\ Last.call.arg_state.level = 0
    /\ Last.call.dispatches # <<>>
    /\ Len(Chain) = 1 /\ Chain[1].name = DictCycle.name

\* A table had the recipient, the owner of that table resolved, and no
\* lookup of the call ended in an error.
Expands(call) ==
    /\ Matched(call) # {}
    /\ ~Orphaned(call)
    /\ \A i \in DOMAIN call.looked : Answer(call.looked[i]).errno = 0

DispatchedOnce(call) ==
    /\ Len(call.dispatches) = 1
    /\ call.reports = <<>>
    /\ call.dispatches[1].expansion =
           dict_lookup(Chain[MatchedSrc(call)], LocalOf(call)).text
    /\ call.expansion = call.dispatches[1].expansion
    /\ call.dispatches[1].state.msg_attr.exp_type = EXPAND_TYPE_ALIAS
    /\ call.dispatches[1].state.msg_attr.exp_from = LocalOf(call)
    /\ call.dispatches[1].state.msg_attr.delivered =
           call.arg_state.msg_attr.recipient
    /\ call.dispatches[1].state.msg_attr.local =
           call.arg_state.msg_attr.local
    /\ call.dispatches[1].state.msg_attr.recipient =
           call.arg_state.msg_attr.recipient

\* C13: when a table has the recipient, the owner of the table resolves
\* and no lookup fails, the dispatcher is called exactly once, with the
\* text of that table unchanged and a state whose exp_type is alias, whose
\* exp_from is the recipient's local part and whose delivered is the
\* recipient; the call returns YES with the status the dispatcher returned.
C13_MatchDispatchesOnce ==
    /\ \A k \in Waiting : Expands(stack[k]) => DispatchedOnce(stack[k])
    /\ Returned /\ Expands(Last.call) =>
         /\ DispatchedOnce(Last.call)
         /\ Last.retval = YES /\ Last.wrote
         /\ Last.status = Last.call.dstatus
         /\ Len(Last.call.kids) = Len(Last.call.expansion)

\* An alias of two destinations has been dispatched and its call has
\* returned the dispatcher's status, a deferral.
C13_Witness ==
    /\ Returned /\ Expands(Last.call)
    /\ Last.call.expansion = <<"a", "b">>
    /\ LocalOf(Last.call) = "list"
    /\ Last.retval = YES /\ Last.status = DeferStatus
    /\ Last.call.dstatus = DeferStatus

SameName(x, y) == Lower(x) = Lower(y)

\* What a call that waits for its expansion has seen of its destinations:
\* those with its own name returned NO, and its exp_from is its own name
\* whatever the calls for the other destinations set in their copies.
OwnNameFallsThrough(call) ==
    /\ call.state.msg_attr.exp_from = LocalOf(call)
    /\ call.dispatches[1].state.msg_attr.exp_from = LocalOf(call)
    /\ \A j \in DOMAIN call.kids :
         /\ call.kids[j].local = call.expansion[j]
         /\ SameName(call.kids[j].local, LocalOf(call)) =>
              call.kids[j].retval = NO

\* A nested call gets the name of the alias it comes from as exp_from.
FromCaller(k) ==
    k > 1 => stack[k].arg_state.msg_attr.exp_from = LocalOf(stack[k - 1])

\* C14: when an expansion names its own alias among its destinations, the
\* expansion is dispatched with exp_from the alias; the nested call for the
\* alias's own name returns NO and does nothing, and the nested call for
\* any other destination gets the same exp_from, is not taken for a
\* self-reference and scans the tables: what it sets as exp_from stays in
\* its copy of the state.
C14_SiblingOfSelfReference ==
    /\ \A k \in Waiting : OwnNameFallsThrough(stack[k])
    /\ \A k \in {Len(stack)} : k > 0 => FromCaller(k)
    /\ Returned /\ Last.depth > 1 =>
         LET parent == stack[Last.depth - 1]
         IN  /\ Last.call.arg_state.msg_attr.exp_from = LocalOf(parent)
             /\ SameName(LocalOf(Last.call), LocalOf(parent)) =>
                  Last.retval = NO /\ NothingDone(Last.call)
             /\ ~SameName(LocalOf(Last.call), LocalOf(parent))
                  /\ Last.call.arg_state.level < LevelCeiling =>
                  /\ LocalLooks(Last.call) # <<>>
                  /\ Last.call.state.msg_attr.exp_from = LocalOf(Last.call)

\* list -> "list, b", with b an alias, resolved from the queue: the call
\* for list returned NO and the call for b dispatched b's expansion.
C14_Witness ==
    /\ Len(stack) = 1 /\ Top.pc = "dispatch"
    /\ Top.arg_state.level = 0
    /\ Top.expansion = <<"list", "b">>
    /\ Top.dispatches[1].state.msg_attr.exp_from = "list"
    /\ Top.kids = <<[local |-> "list", retval |-> NO],
                    [local |-> "b", retval |-> YES]>>
    /\ Returned /\ LocalOf(Last.call) = "b"
    /\ Last.call.dispatches # <<>>
    /\ Last.call.dispatches[1].state.msg_attr.exp_from = "b"
    /\ Last.call.kids = <<[local |-> "a", retval |-> YES],
                          [local |-> "b", retval |-> NO]>>

\* Every table of the chain was looked up for the recipient, in order, and
\* answered not found, without error.
ScannedToTheEnd(call) ==
    /\ Len(LocalLooks(call)) = Len(Chain)
    /\ \A j \in DOMAIN LocalLooks(call) :
         /\ LocalLooks(call)[j].src = j
         /\ ~Answer(LocalLooks(call)[j]).found
         /\ Answer(LocalLooks(call)[j]).errno = 0

SentReports(call) ==
    {i \in DOMAIN call.reports : call.reports[i].fn = "sent"}

\* C15: a call discards the message only after every table of the chain
\* was looked up for the recipient and answered not found without error;
\* when the recipient is postmaster or mailer-daemon, in any case of
\* letters, and a table fails during the scan, the call returns YES with
\* the status of defer_append(KEEP, "alias database unavailable") and
\* discards nothing.
C15_NoDiscardAfterLookupError ==
    Returned =>
        /\ SentReports(Last.call) # {} =>
             /\ ScannedToTheEnd(Last.call)
             /\ Reserved(LocalOf(Last.call))
             /\ Discarded(Last)
        /\ Reserved(LocalOf(Last.call)) /\ ErrorLooks(Last.call) # {} =>
             /\ Last.retval = YES /\ Last.wrote
             /\ Last.status = DeferStatus
             /\ Last.call.reports = <<UnavailableReport(Last.call)>>
             /\ Last.call.reports[1].flags = BOUNCE_FLAG_KEEP
             /\ Last.call.warns = <<>>
             /\ Last.call.dispatches = <<>>

\* A reserved name that the first table does not have and for which the
\* second table fails: deferred.
C15_Witness ==
    /\ Returned /\ Reserved(LocalOf(Last.call))
    /\ Len(LocalLooks(Last.call)) = 2
    /\ ErrorLooks(Last.call) = {2}
    /\ ~Answer(LocalLooks(Last.call)[1]).found
    /\ Last.call.reports = <<UnavailableReport(Last.call)>>
    /\ Last.status = DeferStatus

\* The lookup of the owner- name ended at a table that failed.
OwnerProbeFailed(call) ==
    /\ OwnerLooks(call) # <<>>
    /\ Answer(OwnerLooks(call)[Len(OwnerLooks(call))]).errno # 0

\* C16: when a table has the recipient and the lookup of owner-<recipient>
\* ends at a table that fails, the expansion is not dispatched: the owner
\* of the call's state is reset, the call reports
\* defer_append(KEEP, "alias database unavailable") and returns YES with
\* that status.
C16_OwnerProbeErrorDefers ==
    /\ \A k \in Waiting : ~OwnerProbeFailed(stack[k])
    /\ Returned /\ OwnerProbeFailed(Last.call) =>
         /\ Matched(Last.call) # {}
         /\ Last.call.dispatches = <<>> /\ Last.call.kids = <<>>
         /\ Last.call.state.msg_attr.owner = NULL
         /\ Last.call.reports = <<UnavailableReport(Last.call)>>
         /\ Last.call.reports[1].flags = BOUNCE_FLAG_KEEP
         /\ Last.retval = YES /\ Last.wrote
         /\ Last.status = DeferStatus

\* The first table fails for the owner- name, a later table has it, the
\* caller passed an owner: deferred, with the owner reset.
C16_Witness ==
    /\ Returned /\ OwnerProbeFailed(Last.call)
    /\ Len(OwnerLooks(Last.call)) = 1 /\ Len(Chain) = 2
    /\ dict_lookup(Chain[2], OwnerKey(Last.call)).found
    /\ Last.call.arg_state.msg_attr.owner # NULL
    /\ Last.call.state.msg_attr.owner = NULL
    /\ Last.status = DeferStatus /\ Last.call.dispatches = <<>>

\* The two shapes of a call that has returned.
HandledShape(ret) ==
    /\ ret.retval = YES /\ ret.wrote
    /\ Len(ret.call.dispatches) + Len(ret.call.reports) = 1
    /\ ret.call.dispatches # <<>> => ret.status = ret.call.dstatus
    /\ ret.call.reports # <<>> =>
         /\ ret.call.kids = <<>>
         /\ ret.call.reports[1].fn \in {"defer_append", "bounce_append", "sent"}
         /\ ret.status \in ExtStatus
         /\ ret.call.reports[1].fn = "defer_append" => ret.status = DeferStatus

NotApplicableShape(ret) ==
    /\ ret.retval = NO /\ ~ret.wrote
    /\ ret.call.dispatches = <<>> /\ ret.call.kids = <<>>
    /\ ret.call.reports = <<>>

\* C17: a call returns YES after exactly one terminal action, one call of
\* the dispatcher or one deferred, bounced or discarded report, whose
\* result it wrote to the status; or it returns NO after no call of the
\* dispatcher and no report, with the status not written.  A call that
\* waits for the dispatcher has made that one call and no report.
C17_TwoShapes ==
    /\ \A k \in Waiting :
         Len(stack[k].dispatches) = 1 /\ stack[k].reports = <<>>
    /\ Returned =>
         /\ HandledShape(Last) \/ NotApplicableShape(Last)
         /\ ~(HandledShape(Last) /\ NotApplicableShape(Last))

\* A call has returned YES with the status of its dispatcher, which saw one
\* nested call return NO and another return YES after a report.
C17_Witness ==
    /\ stack # <<>> /\ Top.pc = "dispatch"
    /\ \E j \in DOMAIN Top.kids : Top.kids[j].retval = NO
    /\ Returned /\ HandledShape(Last) /\ Last.depth = Len(stack) + 1
    /\ Last.call.dispatches # <<>>
    /\ \E j \in DOMAIN Last.call.kids : Last.call.kids[j].retval = NO

============================================================================
